---- MODULE Spec2Model ----
(***************************************************************************)
(* payments-ms: PaymentsController and PaymentsService.                    *)
(*                                                                         *)
(* The service builds a checkout session request from a cart              *)
(* (createPaymentSession), verifies and dispatches a provider webhook      *)
(* (stripeWebhook), and the controller binds both, plus two static         *)
(* acknowledgments, to transports.                                         *)
(***************************************************************************)
EXTENDS Integers, Sequences, FiniteSets, TLC

(***************************************************************************)
(* Bounds of the model.                                                    *)
(***************************************************************************)
\* Number of invocations that may be in flight or finished in one behaviour.
MaxInv == 2
\* Longest items list of a PaymentSessionDto.
MaxItems == 2

(***************************************************************************)
(* Number arithmetic.  item.price is a JavaScript Number (IEEE-754         *)
(* binary64) and `item.price * 100` is a binary64 product, so the amount   *)
(* is computed here on 53-bit significands.  Naturals wider than a machine *)
(* word are little-endian sequences of limbs in base 2^10.                 *)
(***************************************************************************)
Base == 2 ^ 10
LimbBits == 10
\* Significand width of a binary64 Number.
SigBits == 53
\* Prices are decimal literals with three fractional digits (19.995 is 19995).
PriceScale == 1000

RECURSIVE Pow2(_)
Pow2(s) == IF s = 0 THEN 1 ELSE 2 * Pow2(s - 1)

RECURSIVE Norm(_)
Norm(n) ==
  IF n = <<>> THEN <<>>
  ELSE IF n[Len(n)] = 0 THEN Norm(SubSeq(n, 1, Len(n) - 1))
  ELSE n

RECURSIVE MulCarry(_, _, _)
MulCarry(n, k, c) ==
  IF n = <<>>
    THEN IF c = 0 THEN <<>> ELSE <<c % Base>> \o MulCarry(<<>>, k, c \div Base)
    ELSE LET t == Head(n) * k + c
         IN  <<t % Base>> \o MulCarry(Tail(n), k, t \div Base)

MulSmall(n, k) == Norm(MulCarry(n, k, 0))

FromInt(i) == MulCarry(<<>>, 1, i)

RECURSIVE ToInt(_)
ToInt(n) == IF n = <<>> THEN 0 ELSE Head(n) + Base * ToInt(Tail(n))

\* Quotient and remainder of n by a small k, most significant limb first.
RECURSIVE DivRem(_, _)
DivRem(n, k) ==
  IF n = <<>> THEN [q |-> <<>>, r |-> 0]
  ELSE LET hi == DivRem(Tail(n), k)
           t  == hi.r * Base + Head(n)
       IN  [q |-> <<t \div k>> \o hi.q, r |-> t % k]

RECURSIVE LimbLen(_)
LimbLen(x) == IF x = 0 THEN 0 ELSE 1 + LimbLen(x \div 2)

BitLen(n) ==
  LET m == Norm(n)
  IN  IF m = <<>> THEN 0 ELSE LimbBits * (Len(m) - 1) + LimbLen(m[Len(m)])

RECURSIVE ShiftLeft(_, _)
ShiftLeft(n, s) ==
  IF s >= LimbBits THEN <<0>> \o ShiftLeft(n, s - LimbBits)
  ELSE MulSmall(n, Pow2(s))

RECURSIVE ShiftRight(_, _)
ShiftRight(n, s) ==
  IF n = <<>> THEN <<>>
  ELSE IF s >= LimbBits THEN ShiftRight(Tail(n), s - LimbBits)
  ELSE Norm(DivRem(n, Pow2(s)).q)

IsOdd(n) == n # <<>> /\ Head(n) % 2 = 1

\* Round-to-nearest, ties-to-even, of q + r/k (the binary64 rounding mode).
RoundNearestEven(q, r, k) ==
  IF 2 * r > k \/ (2 * r = k /\ IsOdd(q))
    THEN Norm(MulCarry(q, 1, 1))
    ELSE Norm(q)

\* A positive Number: m * 2^e with m of exactly SigBits bits.
Renorm(m, e) ==
  IF BitLen(m) > SigBits
    THEN [m |-> ShiftRight(m, 1), e |-> e + 1]
    ELSE [m |-> m, e |-> e]

\* The Number a decimal literal d / PriceScale denotes (d > 0): the nearest
\* binary64 value, as JSON parsing of the request body yields it.
ToNumber(d) ==
  LET s  == CHOOSE s \in 0 .. 2 * SigBits :
              BitLen(DivRem(ShiftLeft(FromInt(d), s), PriceScale).q) = SigBits
      qr == DivRem(ShiftLeft(FromInt(d), s), PriceScale)
  IN  Renorm(RoundNearestEven(qr.q, qr.r, PriceScale), 0 - s)

\* x * k for a Number x and a small integer k, rounded to binary64.
NumberTimes(x, k) ==
  LET p  == MulSmall(x.m, k)
      t  == BitLen(p) - SigBits
      qr == DivRem(p, Pow2(t))
  IN  Renorm(RoundNearestEven(qr.q, qr.r, Pow2(t)), x.e + t)

\* Math.round: floor(x + 1/2), exact.  With h = 2^(-e-1), floor((m + h)/(2h))
\* equals floor((floor(m / h) + 1) / 2).
MathRound(x) ==
  IF x.e >= 0 THEN ToInt(ShiftLeft(x.m, x.e))
  ELSE (ToInt(ShiftRight(x.m, (0 - x.e) - 1)) + 1) \div 2

\* unit_amount: Math.round(item.price * 100)
UnitAmount(price) == MathRound(NumberTimes(ToNumber(price), 100))


(***************************************************************************)
(* JavaScript values.                                                      *)
(***************************************************************************)
\* undefined, where a string is expected (a header, a configuration value).
Undefined == "undefined"
\* undefined, where an object is expected (rawBody, metadata).
JsUndefined == [js |-> "undefined"]

\* a ?? b
Coalesce(a, b) == IF a = Undefined THEN b ELSE a

\* Falsy as a test for undefined alone: an empty string passes.
FalsyUndefinedOnly(s) == s = Undefined

\* !s for a string-or-undefined s
Falsy(s) == s = Undefined \/ s = ""

(***************************************************************************)
(* What an invocation does, in program order.                              *)
(***************************************************************************)
Call(api, params)  == [kind |-> "call", name |-> api, params |-> params]
Log(level, msg)    == [kind |-> "log", level |-> level, msg |-> msg]
Send(status, text) == [kind |-> "send", status |-> status, text |-> text]
Return(value)      == [kind |-> "return", value |-> value]
Throw(error)       == [kind |-> "throw", error |-> error]

(***************************************************************************)
(* PaymentsService.createPaymentSession                                    *)
(***************************************************************************)
\* Math.floor, and the line items with the amount truncated instead of rounded.
MathFloor(x) ==
  IF x.e >= 0 THEN ToInt(ShiftLeft(x.m, x.e))
  ELSE ToInt(ShiftRight(x.m, 0 - x.e))

lineItemsTruncated(dto) ==
  [i \in 1 .. Len(dto.items) |->
     [price_data |->
        [currency     |-> dto.currency,
         product_data |-> [name |-> dto.items[i].name],
         unit_amount  |-> MathFloor(NumberTimes(ToNumber(dto.items[i].price), 100))],
      quantity |-> dto.items[i].quantity]]

lineItems(dto) ==
  [i \in 1 .. Len(dto.items) |->
     [price_data |->
        [currency     |-> dto.currency,
         product_data |-> [name |-> dto.items[i].name],
         unit_amount  |-> UnitAmount(dto.items[i].price)],
      quantity |-> dto.items[i].quantity]]

sessionParams(cfg, dto) ==
  [payment_intent_data |-> [metadata |-> [orderId |-> dto.orderId]],
   line_items  |-> lineItems(dto),
   mode        |-> "payment",
   success_url |-> cfg.STRIPE_SUCCESS_URL,
   cancel_url  |-> cfg.STRIPE_CANCEL_URL]

\* Up to the await: the one call of stripe.checkout.sessions.create.
createPaymentSessionCall(cfg, dto) ==
  <<Call("checkout.sessions.create", sessionParams(cfg, dto))>>

\* After the await resolved: return session.
createPaymentSessionReturn(session) == <<Return(session)>>

\* The catch block without its rethrow: the caller gets undefined.
createPaymentSessionCatchSwallowed(error) ==
  <<Log("error", <<"Error creating payment session", error>>), Return(JsUndefined)>>

\* After the await rejected: the catch block.
createPaymentSessionCatch(error) ==
  <<Log("error", <<"Error creating payment session", error>>), Throw(error)>>

(***************************************************************************)
(* PaymentsService.stripeWebhook                                           *)
(***************************************************************************)
\* The signature Stripe puts in the stripe-signature header for a payload
\* signed with `secret`.
Signature(secret) == "v1=" \o secret

\* stripe.webhooks.constructEvent(rawBody, sig, endpointSecret): the event,
\* or the message of the error it throws.
constructEvent(rawBody, sig, secret) ==
  IF rawBody.js = "undefined"
    THEN [ok |-> FALSE, message |-> "No webhook payload was provided."]
  ELSE IF sig = ""
    THEN [ok |-> FALSE, message |-> "No stripe-signature header value was provided."]
  ELSE IF sig # Signature(secret)
    THEN [ok |-> FALSE, message |-> "No signatures found matching the expected signature for payload."]
  ELSE IF ~rawBody.parses
    THEN [ok |-> FALSE, message |-> "Unexpected token in JSON"]
  ELSE [ok |-> TRUE, event |-> rawBody.event]

\* The catch block without its return: execution falls into the switch, where
\* reading the type of the unassigned event throws.
webhookCatchNoReturn(message) ==
  <<Send(400, <<"Webhook Error: ", message>>), Throw("TypeError")>>

\* The catch block around constructEvent.
webhookCatch(message) == <<Send(400, <<"Webhook Error: ", message>>)>>

\* case 'charge.succeeded': reading metadata.orderId of an undefined
\* metadata throws a TypeError after the first log.
chargeSucceeded(object) ==
  <<Log("log", <<"Payment intent succeeded">>)>> \o
  ( IF object.metadata.js = "undefined"
      THEN <<Throw("TypeError")>>
      ELSE <<Log("debug", <<object.metadata, object.metadata.orderId>>)>> )

\* switch (event.type)
switchEventType(event) ==
  CASE event.type = "charge.succeeded" -> chargeSucceeded(event.data.object)
    [] event.type = "payment_intent.payment_failed" ->
         <<Log("warn", <<"Payment intent payment failed">>)>>
    [] event.type = "payment_intent.canceled" ->
         <<Log("warn", <<"Payment intent canceled">>)>>
    [] OTHER -> <<Log("warn", <<"Unknown event type: ", event.type>>)>>

Threw(trace) == trace # <<>> /\ trace[Len(trace)].kind = "throw"

\* The handler ending without a response.
webhookAckMissing(sig) == <<>>

\* The statement after the switch.
webhookAck(sig) == <<Send(200, <<"Webhook called with signature ", sig>>)>>

stripeWebhook(cfg, payload) ==
  LET sig            == Coalesce(payload.sig, "")
      endpointSecret == Coalesce(cfg.STRIPE_ENDPOINT_SECRET, "")
      args           == [rawBody |-> payload.rawBody, sig |-> sig,
                         secret |-> endpointSecret]
      got            == constructEvent(payload.rawBody, sig, endpointSecret)
      called         == <<Call("webhooks.constructEvent", args)>>
  IN  IF ~got.ok THEN called \o webhookCatch(got.message)
      ELSE LET arm == switchEventType(got.event)
           IN  IF Threw(arm) THEN called \o arm
               ELSE called \o arm \o webhookAck(sig)

(***************************************************************************)
(* PaymentsController                                                      *)
(***************************************************************************)
\* The success payload with the flag of cancel.
successPayloadNotOk == [ok |-> FALSE, message |-> "Payments successfully"]

successPayload == [ok |-> TRUE, message |-> "Payments successfully"]
cancelPayload  == [ok |-> FALSE, message |-> "Payments canceled"]

success == <<Return(successPayload)>>
cancel  == <<Return(cancelPayload)>>

\* The decorators with @Post('create-payment-session') left in beside
\* @MessagePattern.
RoutesWithPost ==
  { [transport |-> "message", method |-> "", path |-> "create.payment.session",
     handler |-> "createPaymentSession"],
    [transport |-> "http", method |-> "POST",
     path |-> "/payments/create-payment-session",
     handler |-> "createPaymentSession"],
    [transport |-> "http", method |-> "GET", path |-> "/payments/success",
     handler |-> "success"],
    [transport |-> "http", method |-> "GET", path |-> "/payments/cancel",
     handler |-> "cancel"],
    [transport |-> "http", method |-> "POST", path |-> "/payments/webhook",
     handler |-> "webhook"] }

\* The decorators of the controller: what each transport binds to which method.
Routes ==
  { [transport |-> "message", method |-> "", path |-> "create.payment.session",
     handler |-> "createPaymentSession"],
    [transport |-> "http", method |-> "GET", path |-> "/payments/success",
     handler |-> "success"],
    [transport |-> "http", method |-> "GET", path |-> "/payments/cancel",
     handler |-> "cancel"],
    [transport |-> "http", method |-> "POST", path |-> "/payments/webhook",
     handler |-> "webhook"] }

Matching(req) ==
  { r \in Routes : /\ r.transport = req.transport
                   /\ r.method = req.method
                   /\ r.path = req.path }

Handler(req) ==
  IF Matching(req) = {} THEN "none" ELSE (CHOOSE r \in Matching(req) : TRUE).handler

(***************************************************************************)
(* Inputs.                                                                 *)
(***************************************************************************)
ItemA == [name |-> "A", price |-> 10000, quantity |-> 2]   \* 10.00
ItemB == [name |-> "B", price |-> 19995, quantity |-> 1]   \* 19.995
ItemC == [name |-> "C", price |-> 1005, quantity |-> 3]    \* 1.005
ItemPool == {ItemA, ItemB, ItemC}

ItemLists == UNION { [1 .. n -> ItemPool] : n \in 1 .. MaxItems }

\* Every PaymentSessionDto within the bounds.
Dtos == [currency : {"usd", "eur"}, items : ItemLists, orderId : {"ord1", "ord2"}]

ExampleDto == [currency |-> "usd", items |-> <<ItemA>>, orderId |-> "ord1"]

\* The dtos of the interleaved runs.
ConcurrentDtos ==
  {ExampleDto, [currency |-> "eur", items |-> <<ItemC, ItemB>>, orderId |-> "ord2"]}

MessageCreate(dto) ==
  [transport |-> "message", method |-> "", path |-> "create.payment.session",
   payload |-> dto]

HttpCreate(dto) ==
  [transport |-> "http", method |-> "POST",
   path |-> "/payments/create-payment-session", payload |-> dto]

CreateRequests(dtos) ==
  {MessageCreate(d) : d \in dtos} \cup {HttpCreate(d) : d \in dtos}

StaticRequests ==
  [transport : {"http"}, method : {"GET"},
   path : {"/payments/success", "/payments/cancel"},
   payload : [query : {"", "session_id=cs_test_1"}]]

Metadatas ==
  {JsUndefined, [js |-> "object", orderId |-> Undefined],
   [js |-> "object", orderId |-> "ord1"]}

EventOf(type, metadata) ==
  [type |-> type, data |-> [object |-> [metadata |-> metadata]]]

Events ==
  {EventOf("charge.succeeded", m) : m \in Metadatas} \cup
  {EventOf(t, [js |-> "object", orderId |-> "ord1"]) :
     t \in {"payment_intent.payment_failed", "payment_intent.canceled",
            "customer.created"}}

MalformedBody == [js |-> "buffer", parses |-> FALSE]
BodyOf(event) == [js |-> "buffer", parses |-> TRUE, event |-> event]
RawBodies == {JsUndefined, MalformedBody} \cup {BodyOf(e) : e \in Events}

SigHeaders == {Undefined, Signature("whsec_1"), Signature("whsec_forged")}

WebhookRequests ==
  [transport : {"http"}, method : {"POST"}, path : {"/payments/webhook"},
   payload : [sig : SigHeaders, rawBody : RawBodies]]

\* What the provider may answer to checkout.sessions.create.
Sessions == {[id |-> "cs_test_1", url |-> "https://checkout.stripe.com/c/pay/cs_test_1"]}
ProviderErrors == {"StripeConnectionError", "StripeInvalidRequestError"}

Pending       == [state |-> "pending"]
NoAnswer      == [state |-> "none"]
Resolved(s)   == [state |-> "resolved", session |-> s]
Rejected(err) == [state |-> "rejected", error |-> err]

Configs(urls) ==
  [STRIPE_SECRET          : {Undefined, "", "sk_test_1"},
   STRIPE_ENDPOINT_SECRET : {Undefined, "whsec_1"},
   STRIPE_SUCCESS_URL     : urls,
   STRIPE_CANCEL_URL      : {"http://localhost:3003/payments/cancel"}]

(***************************************************************************)
(* State.                                                                  *)
(***************************************************************************)
VARIABLES
  config,     \* ConfigService: the environment, read at start
  boot,       \* "start", "ready" (PaymentsService constructed) or "failed"
  stripe,     \* PaymentsService.stripe
  bootTrace,  \* what the constructor did
  inv         \* the invocations, in order of arrival

vars == <<config, boot, stripe, bootTrace, inv>>

Invocation(req, handler, pc, answer, trace) ==
  [req |-> req, handler |-> handler, pc |-> pc, answer |-> answer, trace |-> trace]

Ready == boot = "ready" /\ Len(inv) < MaxInv

(***************************************************************************)
(* PaymentsService.constructor                                             *)
(***************************************************************************)
constructor(cfg) ==
  LET stripeSecret == cfg.STRIPE_SECRET
  IN  IF Falsy(stripeSecret)
        THEN [boot   |-> "failed",
              stripe |-> JsUndefined,
              trace  |-> <<Throw("STRIPE_SECRET is not defined in environment variables")>>]
        ELSE [boot   |-> "ready",
              stripe |-> [js |-> "object", apiKey |-> stripeSecret],
              trace  |-> <<Log("log", <<"PaymentsService initialized">>),
                           Log("debug", <<"Stripe Secret: ", "Loaded">>)>>]

Construct ==
  /\ boot = "start"
  /\ LET c == constructor(config)
     IN  /\ boot' = c.boot
         /\ stripe' = c.stripe
         /\ bootTrace' = c.trace
  /\ UNCHANGED <<config, inv>>

(***************************************************************************)
(* The handlers.                                                           *)
(***************************************************************************)
\* createPaymentSession up to its await.
CreatePaymentSession(req) ==
  /\ Ready
  /\ Handler(req) = "createPaymentSession"
  /\ inv' = Append(inv, Invocation(req, "createPaymentSession", "await", Pending,
                                   createPaymentSessionCall(config, req.payload)))
  /\ UNCHANGED <<config, boot, stripe, bootTrace>>

\* The provider answered with a session.
SessionResolved(i, session) ==
  /\ inv[i].pc = "await"
  /\ inv' = [inv EXCEPT ![i].pc = "done",
                        ![i].answer = Resolved(session),
                        ![i].trace = @ \o createPaymentSessionReturn(session)]
  /\ UNCHANGED <<config, boot, stripe, bootTrace>>

\* The provider call failed.
SessionRejected(i, error) ==
  /\ inv[i].pc = "await"
  /\ inv' = [inv EXCEPT ![i].pc = "done",
                        ![i].answer = Rejected(error),
                        ![i].trace = @ \o createPaymentSessionCatch(error)]
  /\ UNCHANGED <<config, boot, stripe, bootTrace>>

\* stripeWebhook has no await: it runs to its end in one step.
Webhook(req) ==
  /\ Ready
  /\ Handler(req) = "webhook"
  /\ inv' = Append(inv, Invocation(req, "webhook", "done", NoAnswer,
                                   stripeWebhook(config, req.payload)))
  /\ UNCHANGED <<config, boot, stripe, bootTrace>>

Success(req) ==
  /\ Ready
  /\ Handler(req) = "success"
  /\ inv' = Append(inv, Invocation(req, "success", "done", NoAnswer, success))
  /\ UNCHANGED <<config, boot, stripe, bootTrace>>

Cancel(req) ==
  /\ Ready
  /\ Handler(req) = "cancel"
  /\ inv' = Append(inv, Invocation(req, "cancel", "done", NoAnswer, cancel))
  /\ UNCHANGED <<config, boot, stripe, bootTrace>>

\* A request no decorator of the controller matches reaches no method.
NotFound(req) ==
  /\ Ready
  /\ Handler(req) = "none"
  /\ inv' = Append(inv, Invocation(req, "none", "done", NoAnswer,
                                   <<Send(404, <<"Cannot ", req.method, req.path>>)>>))
  /\ UNCHANGED <<config, boot, stripe, bootTrace>>

(***************************************************************************)
(* Specifications.                                                         *)
(***************************************************************************)
InitWith(urls) ==
  /\ config \in Configs(urls)
  /\ boot = "start"
  /\ stripe = JsUndefined
  /\ bootTrace = <<>>
  /\ inv = <<>>

Init == InitWith({"http://localhost:3003/payments/success"})

Requests == CreateRequests(ConcurrentDtos) \cup StaticRequests \cup WebhookRequests

Next ==
  \/ Construct
  \/ \E req \in Requests :
       \/ CreatePaymentSession(req)
       \/ Webhook(req)
       \/ Success(req)
       \/ Cancel(req)
       \/ NotFound(req)
  \/ \E i \in 1 .. Len(inv), s \in Sessions : SessionResolved(i, s)
  \/ \E i \in 1 .. Len(inv), e \in ProviderErrors : SessionRejected(i, e)

\* Interleaved invocations of every entry point.
Spec == Init /\ [][Next]_vars

\* One createPaymentSession at a time, over every dto within the bounds.
InitCreate == InitWith({Undefined, "http://localhost:3003/payments/success"})

NextCreate ==
  \/ Construct
  \/ \E req \in CreateRequests(Dtos) : inv = <<>> /\ CreatePaymentSession(req)
  \/ \E i \in 1 .. Len(inv), s \in Sessions : SessionResolved(i, s)
  \/ \E i \in 1 .. Len(inv), e \in ProviderErrors : SessionRejected(i, e)

SpecCreate == InitCreate /\ [][NextCreate]_vars

(***************************************************************************)
(* Reading an invocation.                                                  *)
(***************************************************************************)
Ids == 1 .. Len(inv)

Kinds(trace, k) == SelectSeq(trace, LAMBDA e : e.kind = k)

Outcomes(trace) == SelectSeq(trace, LAMBDA e : e.kind \in {"send", "return", "throw"})

IsWebhook(i) == inv[i].handler = "webhook"
IsCreate(i)  == inv[i].handler = "createPaymentSession"

\* The header and the secret as stripeWebhook hands them to the provider, and
\* the provider's verdict on them.
SigOf(i) ==
  IF inv[i].req.payload.sig = Undefined THEN "" ELSE inv[i].req.payload.sig

SecretInUse ==
  IF config.STRIPE_ENDPOINT_SECRET = Undefined THEN ""
  ELSE config.STRIPE_ENDPOINT_SECRET

Verdict(i) == constructEvent(inv[i].req.payload.rawBody, SigOf(i), SecretInUse)

\* The parameters of the session creation call invocation i made.
ParamsOf(i) == inv[i].trace[1].params

(***************************************************************************)
(* C1                                                                      *)
(***************************************************************************)
\* C1: a webhook whose verification fails sends exactly one response, 400
\* with 'Webhook Error: <message>', logs nothing of the switch, sends no 200
\* and raises nothing.
C1_FailedVerificationIs400 ==
  \A i \in Ids :
    (IsWebhook(i) /\ ~Verdict(i).ok) =>
      LET t == inv[i].trace
      IN  /\ inv[i].pc = "done"
          /\ Len(Kinds(t, "send")) = 1
          /\ \A k \in 1 .. Len(t) :
               t[k].kind = "send" =>
                 /\ t[k].status = 400
                 /\ t[k].text = <<"Webhook Error: ", Verdict(i).message>>
          /\ Kinds(t, "log") = <<>>
          /\ Kinds(t, "throw") = <<>>
          /\ Kinds(t, "return") = <<>>

\* A webhook with no stripe-signature header and one with a forged signature.
C1_Witness ==
  \E i, j \in Ids :
    /\ IsWebhook(i) /\ inv[i].req.payload.sig = Undefined
    /\ inv[i].req.payload.rawBody.js = "buffer"
    /\ IsWebhook(j) /\ inv[j].req.payload.sig = Signature("whsec_forged")
    /\ ~Verdict(i).ok /\ ~Verdict(j).ok

(***************************************************************************)
(* C2                                                                      *)
(***************************************************************************)
\* C2: a webhook whose verification succeeds ends, whatever the event's type
\* and payload, with exactly one response: 200 'Webhook called with signature
\* <sig>'; never with an exception or without a response.
C2_VerifiedEndsWith200 ==
  \A i \in Ids :
    (IsWebhook(i) /\ Verdict(i).ok /\ inv[i].pc = "done") =>
      LET t == inv[i].trace
      IN  /\ Kinds(t, "throw") = <<>>
          /\ Len(Kinds(t, "send")) = 1
          /\ t[Len(t)].kind = "send"
          /\ t[Len(t)].status = 200
          /\ t[Len(t)].text = <<"Webhook called with signature ", SigOf(i)>>

(***************************************************************************)
(* C3                                                                      *)
(***************************************************************************)
\* C3: createPaymentSession calls the provider with one line item per input
\* item, in order, with the request's currency, the item's name, unit_amount
\* Math.round(price * 100) and the item's quantity; mode 'payment'; the
\* orderId as payment-intent metadata; the URLs of the configuration.  The
\* item {A, 10.00, 2} in 'usd' for 'ord1' gives unit_amount 1000, quantity 2.
C3_SessionParams ==
  \A i \in Ids :
    IsCreate(i) =>
      LET dto == inv[i].req.payload
          p   == ParamsOf(i)
      IN  /\ inv[i].trace[1].kind = "call"
          /\ inv[i].trace[1].name = "checkout.sessions.create"
          /\ Len(p.line_items) = Len(dto.items)
          /\ \A k \in 1 .. Len(dto.items) :
               /\ p.line_items[k].price_data.currency = dto.currency
               /\ p.line_items[k].price_data.product_data.name = dto.items[k].name
               /\ p.line_items[k].price_data.unit_amount =
                    MathRound(NumberTimes(ToNumber(dto.items[k].price), 100))
               /\ p.line_items[k].quantity = dto.items[k].quantity
          /\ p.mode = "payment"
          /\ p.payment_intent_data.metadata.orderId = dto.orderId
          /\ p.success_url = config.STRIPE_SUCCESS_URL
          /\ p.cancel_url = config.STRIPE_CANCEL_URL
          /\ (dto = ExampleDto =>
                p.line_items =
                  <<[price_data |-> [currency |-> "usd",
                                     product_data |-> [name |-> "A"],
                                     unit_amount |-> 1000],
                     quantity |-> 2]>>)
          /\ \A k \in 1 .. Len(dto.items) :
               dto.items[k].price = 19995 =>
                 p.line_items[k].price_data.unit_amount = 2000

\* The example request, and a request of several items priced 19.995.
C3_Witness ==
  \E i \in Ids :
    /\ IsCreate(i)
    /\ inv[i].req.payload.orderId = "ord1"
    /\ inv[i].req.payload.items = <<ItemA, ItemB>>
    /\ inv[i].pc = "done"

(***************************************************************************)
(* C4                                                                      *)
(***************************************************************************)
\* C4: the unit_amount submitted to the provider is the decimal price times
\* 100 rounded half-up, at x.xx5 prices too.
C4_HalfUpOnDecimalPrice ==
  \A i \in Ids :
    IsCreate(i) =>
      \A k \in 1 .. Len(inv[i].req.payload.items) :
        ParamsOf(i).line_items[k].price_data.unit_amount =
          (2 * 100 * inv[i].req.payload.items[k].price + PriceScale)
            \div (2 * PriceScale)

(***************************************************************************)
(* C5                                                                      *)
(***************************************************************************)
\* C5: createPaymentSession calls the provider exactly once; a failed call is
\* logged once and the same error re-raised, with no retry and no substitute
\* value; a successful call's session is returned unmodified.
C5_OneCallThenReturnOrRethrow ==
  \A i \in Ids :
    IsCreate(i) =>
      LET t == inv[i].trace
      IN  /\ Len(Kinds(t, "call")) = 1
          /\ t[1].kind = "call"
          /\ Kinds(t, "send") = <<>>
          /\ inv[i].pc = "await" => Len(t) = 1
          /\ inv[i].answer.state = "resolved" =>
               /\ Len(t) = 2
               /\ t[2].kind = "return"
               /\ t[2].value = inv[i].answer.session
          /\ inv[i].answer.state = "rejected" =>
               /\ Len(t) = 3
               /\ t[2].kind = "log"
               /\ t[2].level = "error"
               /\ t[2].msg = <<"Error creating payment session", inv[i].answer.error>>
               /\ t[3].kind = "throw"
               /\ t[3].error = inv[i].answer.error

\* One session creation that failed and one that succeeded.
C5_Witness ==
  \E i, j \in Ids :
    /\ IsCreate(i) /\ inv[i].answer.state = "rejected"
    /\ IsCreate(j) /\ inv[j].answer.state = "resolved"

(***************************************************************************)
(* C6                                                                      *)
(***************************************************************************)
\* C6: with STRIPE_SECRET missing or empty the constructor throws before a
\* provider client exists and no handler ever runs; with the key present the
\* service is constructed and holds a client made from that key.
C6_NoSecretNoService ==
  LET missing == config.STRIPE_SECRET = Undefined \/ config.STRIPE_SECRET = ""
  IN  /\ boot # "start" => (boot = "failed" <=> missing)
      /\ boot = "failed" =>
           /\ stripe.js = "undefined"
           /\ inv = <<>>
           /\ Kinds(bootTrace, "throw") # <<>>
           /\ Kinds(bootTrace, "log") = <<>>
      /\ boot = "ready" =>
           /\ stripe.js = "object"
           /\ stripe.apiKey = config.STRIPE_SECRET
           /\ Kinds(bootTrace, "throw") = <<>>
      /\ inv # <<>> => (~missing /\ stripe.js = "object")

\* The constructor ran with an empty STRIPE_SECRET.
C6_Witness == boot = "failed" /\ config.STRIPE_SECRET = ""

(***************************************************************************)
(* C7                                                                      *)
(***************************************************************************)
\* C7: for every verified event exactly one arm of the switch fires, chosen by
\* the type: charge.succeeded logs the success message and then the
\* metadata/orderId pair, the two payment_intent types and any other type log
\* one warning each (the last naming the type); no arm calls the provider, and
\* the logs precede the 200 response.
C7_OneArmPerEvent ==
  \A i \in Ids :
    (IsWebhook(i) /\ Verdict(i).ok) =>
      LET t    == inv[i].trace
          type == Verdict(i).event.type
          logs == Kinds(t, "log")
      IN  /\ Len(Kinds(t, "call")) = 1
          /\ t[1].kind = "call"
          /\ t[Len(t)].kind = "send"
          /\ \A k \in 2 .. Len(t) - 1 : t[k].kind = "log"
          /\ type = "charge.succeeded" =>
               /\ Len(logs) = 2
               /\ logs[1].level = "log"
               /\ logs[1].msg = <<"Payment intent succeeded">>
               /\ logs[2].level = "debug"
          /\ type = "payment_intent.payment_failed" =>
               logs = <<Log("warn", <<"Payment intent payment failed">>)>>
          /\ type = "payment_intent.canceled" =>
               logs = <<Log("warn", <<"Payment intent canceled">>)>>
          /\ type \notin {"charge.succeeded", "payment_intent.payment_failed",
                          "payment_intent.canceled"} =>
               logs = <<Log("warn", <<"Unknown event type: ", type>>)>>

(***************************************************************************)
(* C8                                                                      *)
(***************************************************************************)
IsHttpCreate(req) ==
  /\ req.transport = "http"
  /\ req.method = "POST"
  /\ req.path = "/payments/create-payment-session"

IsMessageCreate(req) ==
  req.transport = "message" /\ req.path = "create.payment.session"

\* C8: create-session is reached through POST /payments/create-payment-session
\* and through that transport alone.
C8_CreateBoundToHttp ==
  \A i \in Ids :
    /\ IsHttpCreate(inv[i].req) => IsCreate(i)
    /\ IsCreate(i) => IsHttpCreate(inv[i].req)

\* C8, amended: create-session is bound to exactly one transport, the message
\* pattern 'create.payment.session'; there it returns the session or raises
\* the provider's error, and POST /payments/create-payment-session reaches no
\* method.
C8_CreateBoundToMessagePattern ==
  /\ Cardinality({r \in Routes : r.handler = "createPaymentSession"}) = 1
  /\ \A i \in Ids :
       /\ IsCreate(i) <=> IsMessageCreate(inv[i].req)
       /\ IsHttpCreate(inv[i].req) =>
            /\ inv[i].handler = "none"
            /\ Kinds(inv[i].trace, "call") = <<>>
            /\ Kinds(inv[i].trace, "return") = <<>>
       /\ (IsCreate(i) /\ inv[i].pc = "done") =>
            LET last == inv[i].trace[Len(inv[i].trace)]
            IN  \/ /\ inv[i].answer.state = "resolved"
                   /\ last.kind = "return"
                   /\ last.value = inv[i].answer.session
                \/ /\ inv[i].answer.state = "rejected"
                   /\ last.kind = "throw"
                   /\ last.error = inv[i].answer.error

\* The same dto sent over both transports: answered over the message pattern,
\* unrouted over HTTP.
C8_Witness ==
  \E i, j \in Ids :
    /\ IsMessageCreate(inv[i].req) /\ inv[i].answer.state = "resolved"
    /\ IsHttpCreate(inv[j].req) /\ inv[j].pc = "done"
    /\ inv[i].req.payload = inv[j].req.payload

(***************************************************************************)
(* C9                                                                      *)
(***************************************************************************)
\* C9: success and cancel return their fixed payloads whatever the query and
\* whatever came before, and do nothing else: no provider call, no log.
C9_StaticPayloads ==
  \A i \in Ids :
    LET req == inv[i].req
        t   == inv[i].trace
    IN  /\ (req.transport = "http" /\ req.method = "GET"
             /\ req.path = "/payments/success") =>
             /\ inv[i].pc = "done"
             /\ Len(t) = 1
             /\ t[1].kind = "return"
             /\ t[1].value = [ok |-> TRUE, message |-> "Payments successfully"]
        /\ (req.transport = "http" /\ req.method = "GET"
             /\ req.path = "/payments/cancel") =>
             /\ inv[i].pc = "done"
             /\ Len(t) = 1
             /\ t[1].kind = "return"
             /\ t[1].value = [ok |-> FALSE, message |-> "Payments canceled"]

\* success with a query string, after a webhook was handled.
C9_Witness ==
  /\ Len(inv) >= 2
  /\ IsWebhook(1)
  /\ inv[2].handler = "success"
  /\ inv[2].req.payload.query # ""

(***************************************************************************)
(* C10                                                                     *)
(***************************************************************************)
C10_State ==
  /\ \A i \in Ids :
       /\ Len(Kinds(inv[i].trace, "call")) <= 1
       /\ Len(Outcomes(inv[i].trace)) <= 1
       /\ inv[i].pc = "done" <=> Len(Outcomes(inv[i].trace)) = 1
  /\ \A i, j \in Ids :
       (inv[i].req = inv[j].req /\ inv[i].answer = inv[j].answer) =>
         inv[i].trace = inv[j].trace

C10_Step ==
  /\ config' = config
  /\ boot = "ready" => (boot' = boot /\ stripe' = stripe /\ bootTrace' = bootTrace)
  /\ Len(inv') >= Len(inv)
  /\ \A i \in Ids : inv[i].pc = "done" => inv'[i] = inv[i]
  /\ \A i, j \in Ids : (i # j /\ inv'[i] # inv[i]) => inv'[j] = inv[j]
  /\ \A i \in Ids : inv'[i].req = inv[i].req

\* C10: under any interleaving every invocation makes at most one provider
\* call and ends with exactly one outcome, which its own input, the answer to
\* its own call and the configuration determine; a step changes one
\* invocation only, never a finished one, and never the configuration or the
\* provider client.
C10_IndependentInvocations == [](C10_State) /\ [][C10_Step]_vars

\* A session creation suspended on its provider call while a webhook, arrived
\* later, has already been answered.
C10_Witness ==
  /\ Len(inv) >= 2
  /\ IsCreate(1) /\ inv[1].pc = "await"
  /\ IsWebhook(2) /\ inv[2].pc = "done"

====
